---- MODULE Spec2Model ----
(***************************************************************************)
(* Model of script/src/da.rs: the counted partial-read buffer              *)
(* (CountedBufReader), the 32-byte address (AvailAddress) and the blob     *)
(* transaction with its hash chaining (AvailBlobTransaction).              *)
(*                                                                         *)
(* Three specifications share the module's variables:                      *)
(*   Spec      one CountedBufReader under arbitrary advance(n) calls       *)
(*   TxSpec    AvailBlobTransaction::new / hash / combine_hash             *)
(*   AddrSpec  AvailAddress Display / FromStr                              *)
(* Each one holds the variables of the other two at their idle values.     *)
(***************************************************************************)
EXTENDS Integers, Sequences, FiniteSets, TLC

\* ------------------------------------------------------------- bounds
\* Longest source buffer handed to CountedBufReader::new.
MaxLen == 3
\* Source bytes range over 0..MaxByte (0 is the resize fill value).
MaxByte == 2
\* advance(n) is called with n in 0..MaxN, and with LargeN.
MaxN == 4
\* A request far beyond any source length ("read everything" sentinel).
LargeN == 1000
\* Distinct signer accounts among the envelopes.
MaxAccounts == 1
\* Longest blob carried by a submit_data call of an envelope.
MaxBlobLen == 1
\* The transactions of a run: two, as the claims compare and fold pairs.
Slots == {1, 2}
\* Longest chain folded with combine_hash from one prior digest.
MaxFold == 2
\* Addresses are AccountBytes(0) .. AccountBytes(MaxAddrs).
MaxAddrs == 15

\* ---------------------------------------------------------- constants
\* [u8; 32]: the width of a digest and of an address.
HashLen == 32
AddrLen == 32

VARIABLES
    source,       \* ghost: the content handed to CountedBufReader::new
    inner,        \* CountedBufReader.inner: the unread remainder of the Buf
    accumulator,  \* CountedBufReader.accumulator
    panicked,     \* TRUE once a call has panicked
    hist,         \* ghost: the last (at most two) advance calls, oldest first
    txs,          \* per slot: the envelope given to new() and its Result
    hashSeen,     \* per slot: the values hash() has returned so far
    lastCombine,  \* the last combine_hash call: transaction, prior, output
    running,      \* the caller's running digest of a fold
    fold,         \* the slots folded into running, in order
    addr,         \* an AvailAddress
    text,         \* the output of Display on addr, once produced
    parsed        \* the last FromStr call: its input and its Result

bufVars == <<source, inner, accumulator, panicked, hist>>
txVars == <<txs, hashSeen, lastCombine, running, fold>>
addrVars == <<addr, text, parsed>>
vars == <<source, inner, accumulator, panicked, hist,
          txs, hashSeen, lastCombine, running, fold, addr, text, parsed>>

\* ------------------------------------------------------------ helpers
Byte == 0..MaxByte

RECURSIVE SeqsUpTo(_, _)
SeqsUpTo(S, n) ==
    IF n = 0 THEN {<<>>}
    ELSE LET shorter == SeqsUpTo(S, n - 1)
         IN shorter \cup {Append(s, b) : s \in {t \in shorter : Len(t) = n - 1}, b \in S}

Sources == SeqsUpTo(Byte, MaxLen)

Requests == (0..MaxN) \cup {LargeN}

Take(s, k) == SubSeq(s, 1, k)
Drop(s, k) == SubSeq(s, k + 1, Len(s))
IsPrefix(s, t) == Len(s) <= Len(t) /\ SubSeq(t, 1, Len(s)) = s

\* ------------------------------------------- CountedBufReader (da.rs)
\* core::cmp::min
Min(a, b) == IF a <= b THEN a ELSE b

\* bytes::Buf::remaining on the inner buffer
Remaining(buf) == Len(buf)

\* Vec::resize(new_len, value): truncates, or pads with value
Resize(v, newLen, value) ==
    [i \in 1..newLen |-> IF i <= Len(v) THEN v[i] ELSE value]

\* Faulty variants of the definitions below; the properties are tested for
\* sensitivity against them.
NumToReadNoClamp(remaining, requested) == requested
NumToReadRejectLarge(remaining, requested) ==
    IF requested > remaining THEN 0 ELSE requested
NumToReadAtLeastOne(remaining, requested) ==
    IF requested = 0 THEN 1 ELSE Min(remaining, requested)

\* let num_to_read = core::cmp::min(remaining, requested);
NumToRead(remaining, requested) == Min(remaining, requested)

ResizedLenForgetOld(accLen, numToRead) == numToRead

\* self.accumulator.len() + num_to_read, the length given to resize
ResizedLen(accLen, numToRead) == accLen + numToRead

DstStartFromZero(accumulatorLen, numToRead) == 0

\* accumulator_len - num_to_read, the 0-based start of the destination slice
DstStart(accumulatorLen, numToRead) == accumulatorLen - numToRead

\* Buf::copy_to_slice(dst) panics when fewer than dst.len() bytes remain
CopyPanics(buf, dstLen) == Remaining(buf) < dstLen

\* Buf::copy_to_slice: the bytes copied out, in order
Copied(buf, dstLen) == Take(buf, dstLen)

AfterCopyNoAdvance(buf, dstLen) == buf

\* Buf::copy_to_slice: the buffer after its cursor has moved
AfterCopy(buf, dstLen) == Drop(buf, dstLen)

\* v with v[start .. start + Len(bytes)) (0-based) overwritten by bytes
Overwrite(v, start, bytes) ==
    [i \in 1..Len(v) |->
        IF i > start /\ i <= start + Len(bytes) THEN bytes[i - start] ELSE v[i]]

\* CountedBufReader::new
NewReader(src) == [inner |-> src, accumulator |-> <<>>, panicked |-> FALSE]

\* CountedBufReader::advance, on a reader r; the result is the reader after
\* the call. A subtraction that would underflow (usize) or a slice out of
\* range panics, as does copy_to_slice past the end.
AdvanceOp(r, numBytes) ==
    LET requested == numBytes
        remaining == Remaining(r.inner)
    IN  IF remaining = 0 THEN r
        ELSE
        LET numToRead == NumToRead(remaining, requested)
            resized == Resize(r.accumulator,
                              ResizedLen(Len(r.accumulator), numToRead), 0)
            accumulatorLen == Len(resized)
        IN  IF accumulatorLen < numToRead
               \/ DstStart(accumulatorLen, numToRead) < 0
               \/ DstStart(accumulatorLen, numToRead) > accumulatorLen
               \/ CopyPanics(r.inner, accumulatorLen - DstStart(accumulatorLen, numToRead))
            THEN [inner |-> r.inner, accumulator |-> resized, panicked |-> TRUE]
            ELSE
            LET start == DstStart(accumulatorLen, numToRead)
                dstLen == accumulatorLen - start
            IN  [inner |-> AfterCopy(r.inner, dstLen),
                 accumulator |-> Overwrite(resized, start, Copied(r.inner, dstLen)),
                 panicked |-> FALSE]

\* CountedBufReader::accumulator
Accumulator(r) == r.accumulator

\* CountedBufReader::total_len
TotalLen(r) == Remaining(r.inner) + Len(r.accumulator)

Reader == [inner |-> inner, accumulator |-> accumulator, panicked |-> panicked]

TxIdle ==
    /\ txs = <<>>
    /\ hashSeen = <<>>
    /\ lastCombine = <<>>
    /\ running = <<>>
    /\ fold = <<>>

AddrIdle ==
    /\ addr = <<>>
    /\ text = <<>>
    /\ parsed = <<>>

BufIdle ==
    /\ source = <<>>
    /\ inner = <<>>
    /\ accumulator = <<>>
    /\ panicked = FALSE
    /\ hist = <<>>

\* The state after CountedBufReader::new(source).
Init ==
    /\ source \in Sources
    /\ inner = NewReader(source).inner
    /\ accumulator = NewReader(source).accumulator
    /\ panicked = NewReader(source).panicked
    /\ hist = <<>>
    /\ TxIdle
    /\ AddrIdle

\* The ghost record of a call: its argument and the reader it was made on.
CallRecord(n) == [n |-> n, inner |-> inner, accumulator |-> accumulator]

Remember(h, c) == IF Len(h) < 2 THEN Append(h, c) ELSE <<h[2], c>>

\* One advance(n) call. A panicked program makes no further calls.
Advance(n) ==
    /\ ~panicked
    /\ LET r == AdvanceOp(Reader, n)
       IN  /\ inner' = r.inner
           /\ accumulator' = r.accumulator
           /\ panicked' = r.panicked
    /\ hist' = Remember(hist, CallRecord(n))
    /\ UNCHANGED <<source, txVars, addrVars>>

Next == \E n \in Requests : Advance(n)

Spec == Init /\ [][Next]_vars

\* ------------------------------------------------ claims on the reader
LastCall == hist[Len(hist)]

\* C1: after construction and any sequence of advance calls, total_len()
\* (accumulator length plus inner.remaining()) equals the length of the
\* source given to new(); the total never changes.
C1_TotalLenConstant == TotalLen(Reader) = Len(source)

C1_Witness ==
    /\ Len(hist) = 2
    /\ Len(accumulator) > 0
    /\ Remaining(inner) > 0
    /\ Len(accumulator) > Len(LastCall.accumulator)

\* The number of bytes that have left the source so far.
Moved == Len(source) - Remaining(inner)

\* C2: the accumulator is exactly the first k bytes of the source, in order,
\* and the unread remainder is exactly the suffix from index k, where k is
\* the number of bytes moved; no byte is in both and no fill byte is left.
C2_AccumulatorIsPrefix ==
    /\ Moved >= 0
    /\ Accumulator(Reader) = Take(source, Moved)
    /\ inner = Drop(source, Moved)

C2_Witness ==
    /\ Len(hist) = 2
    /\ Len(LastCall.accumulator) > 0
    /\ Len(accumulator) > Len(LastCall.accumulator)
    /\ \A i \in 1..Len(accumulator) : accumulator[i] # 0
    /\ Remaining(inner) > 0

\* C3: advance(n) never fails and moves exactly min(n, remaining) bytes to
\* the end of the accumulator; with n >= remaining it moves everything, and
\* with nothing remaining it changes nothing.
C3_AdvanceMovesMin ==
    /\ ~panicked
    /\ hist # <<>> =>
        LET c == LastCall
            rem == Len(c.inner)
            m == IF c.n <= rem THEN c.n ELSE rem
        IN  /\ accumulator = c.accumulator \o SubSeq(c.inner, 1, m)
            /\ inner = SubSeq(c.inner, m + 1, rem)
            /\ c.n >= rem => (accumulator = source /\ inner = <<>>)
            /\ rem = 0 => (accumulator = c.accumulator /\ inner = c.inner)

C3_Witness ==
    /\ hist # <<>>
    /\ LastCall.n = LargeN
    /\ Len(LastCall.accumulator) > 0
    /\ Len(LastCall.inner) > 0
    /\ accumulator = source
    /\ inner = <<>>

\* C4: every step only appends to the accumulator and never lengthens the
\* unread remainder.
C4_Monotone ==
    [][IsPrefix(accumulator, accumulator') /\ Remaining(inner') <= Remaining(inner)]_vars

C4_Witness ==
    /\ Len(hist) = 2
    /\ Len(hist[1].accumulator) < Len(hist[2].accumulator)
    /\ Len(hist[2].accumulator) < Len(accumulator)
    /\ Remaining(inner) < Remaining(hist[2].inner)

\* C5 as stated: every advance(n) made while a byte remains strictly grows
\* the accumulator and strictly shrinks the remainder, for every n.
C5_AlwaysStrict ==
    (hist # <<>> /\ Len(LastCall.inner) > 0) =>
        /\ Len(accumulator) > Len(LastCall.accumulator)
        /\ Remaining(inner) < Len(LastCall.inner)

\* C5 amended: every advance(n) with n >= 1 made while a byte remains
\* strictly grows the accumulator and strictly shrinks the remainder.
C5_StrictForPositive ==
    (hist # <<>> /\ Len(LastCall.inner) > 0 /\ LastCall.n >= 1) =>
        /\ Len(accumulator) > Len(LastCall.accumulator)
        /\ Remaining(inner) < Len(LastCall.inner)

C5_Witness ==
    /\ hist # <<>>
    /\ LastCall.n > Len(LastCall.inner)
    /\ Len(LastCall.inner) > 0
    /\ Len(accumulator) > Len(LastCall.accumulator)
    /\ Remaining(inner) < Len(LastCall.inner)

\* C10: advance(a) followed by advance(b) leaves the reader exactly as one
\* advance(a + b) from the same start would; advance(0) changes nothing.
C10_Additive ==
    /\ Len(hist) = 2 =>
        AdvanceOp([inner |-> hist[1].inner, accumulator |-> hist[1].accumulator,
                   panicked |-> FALSE], hist[1].n + hist[2].n) = Reader
    /\ (hist # <<>> /\ LastCall.n = 0) =>
        (accumulator = LastCall.accumulator /\ inner = LastCall.inner)

C10_Witness ==
    /\ Len(hist) = 2
    /\ hist[1].n >= 1
    /\ hist[2].n >= 1
    /\ hist[1].n + hist[2].n <= Len(hist[1].inner)
    /\ Len(accumulator) = Len(hist[1].accumulator) + hist[1].n + hist[2].n

\* -------------------------------------- AvailBlobTransaction (da.rs)
\* sp_core_hashing::blake2_256 is an external primitive. It is modelled by
\* a checksum with the same interface: any byte string in, HashLen bytes
\* out, deterministic, and sensitive to the order of the message bytes
\* (output byte i mixes the i-th byte from the front, the i-th byte from
\* the back, i and the length). Collision resistance is not modelled.
Blake2_256(msg) ==
    LET n == Len(msg)
    IN  [i \in 1..HashLen |->
            IF n = 0 THEN (11 * i) % 256
            ELSE (3 * msg[((i - 1) % n) + 1] + 7 * msg[n - ((i - 1) % n)]
                  + 11 * i + n) % 256]

ZeroDigest == [i \in 1..HashLen |-> 0]

\* An AccountId32: AddrLen bytes.
AccountBytes(k) == [i \in 1..AddrLen |-> (16 * k + i) % 256]

\* Blob payloads: the bytes 1, 2, ..., k.
Blobs == {[i \in 1..k |-> i] : k \in 0..MaxBlobLen}

\* AppUncheckedExtrinsic.signature: None, or Some((MultiAddress, _, _))
\* with one of the five MultiAddress shapes.
Signatures ==
    {[present |-> FALSE, shape |-> "None", who |-> <<>>]}
    \cup {[present |-> TRUE, shape |-> "Id", who |-> AccountBytes(k)] : k \in 1..MaxAccounts}
    \cup {[present |-> TRUE, shape |-> "Index", who |-> <<4>>],
          [present |-> TRUE, shape |-> "Raw", who |-> <<8, 1, 2>>],
          [present |-> TRUE, shape |-> "Address32", who |-> AccountBytes(1)],
          [present |-> TRUE, shape |-> "Address20", who |-> SubSeq(AccountBytes(1), 1, 20)]}

\* AppUncheckedExtrinsic.function: a RuntimeCall.
Calls ==
    {[pallet |-> "DataAvailability", call |-> "submit_data", data |-> b] : b \in Blobs}
    \cup {[pallet |-> "DataAvailability", call |-> "create_application_key", data |-> <<1>>],
          [pallet |-> "Balances", call |-> "transfer", data |-> <<>>]}

Envelopes == [signature : Signatures, function : Calls]

\* unchecked_extrinsic.encode(): the SCALE encoding of the envelope, an
\* external codec. Modelled as version byte, address (variant index and
\* bytes), call (pallet index, call index, compact length and data); the
\* MultiSignature and the extra are the same in every envelope of the model
\* and are left out.
Encode(env) ==
    LET sig == env.signature
        fn == env.function
        variant == CASE sig.shape = "Id" -> 0
                     [] sig.shape = "Index" -> 1
                     [] sig.shape = "Raw" -> 2
                     [] sig.shape = "Address32" -> 3
                     [] sig.shape = "Address20" -> 4
                     [] OTHER -> 255
        sigBytes == IF sig.present THEN <<132, variant>> \o sig.who ELSE <<4>>
        palletIx == IF fn.pallet = "DataAvailability" THEN 29 ELSE 6
        callIx == IF fn.call = "submit_data" THEN 1 ELSE 0
    IN  sigBytes \o <<palletIx, callIx, 4 * Len(fn.data)>> \o fn.data

IsAnySigner(sig) == sig.present

\* match &unchecked_extrinsic.signature { Some((MultiAddress::Id(id), _, _)) => ..
IsIdSigner(sig) == sig.present /\ sig.shape = "Id"

\* match &unchecked_extrinsic.function { DataAvailability(Call::submit_data { data }) => ..
IsSubmitData(fn) == fn.pallet = "DataAvailability" /\ fn.call = "submit_data"

\* AvailAddress::from(id.clone().0)
AddressFrom(bytes) == bytes

UnsignedError == "Unsigned extrinsic being used to create AvailBlobTransaction."
InvalidCallError == "Invalid type of extrinsic being converted to AvailBlobTransaction."

EnvelopeDigestPayloadOnly(env) == Blake2_256(env.function.data)

\* hash: sp_core_hashing::blake2_256(&unchecked_extrinsic.encode())
EnvelopeDigest(env) == Blake2_256(Encode(env))

\* AvailBlobTransaction::new: an anyhow::Result, Err(message) or Ok(tx)
AvailBlobTransactionNew(env) ==
    IF ~IsIdSigner(env.signature) THEN [ok |-> FALSE, err |-> UnsignedError]
    ELSE IF ~IsSubmitData(env.function) THEN [ok |-> FALSE, err |-> InvalidCallError]
    ELSE [ok |-> TRUE,
          tx |-> [blob |-> NewReader(env.function.data),
                  hash |-> EnvelopeDigest(env),
                  address |-> AddressFrom(env.signature.who)]]

\* AvailBlobTransaction::hash
Hash(tx) == tx.hash

CombinedHashesOwnFirst(prior, own) == own \o prior

\* combined_hashes after the two extend_from_slice calls
CombinedHashes(prior, own) == (<<>> \o prior) \o own

\* AvailBlobTransaction::combine_hash
CombineHash(tx, prior) == Blake2_256(CombinedHashes(prior, Hash(tx)))

SelfAfterCallKeepsOutput(tx, out) == [tx EXCEPT !.hash = out]

\* hash and combine_hash take &self: the transaction after the call
SelfAfterCall(tx, out) == tx

Built == {i \in 1..Len(txs) : txs[i].res.ok}

\* The prior digests a caller starts a chain from: zero, and the digests of
\* the transactions built so far. (FoldNext hands in the running digest.)
Priors == {ZeroDigest} \cup {Hash(txs[i].res.tx) : i \in Built}

TxInit ==
    /\ txs = <<>>
    /\ hashSeen = <<>>
    /\ lastCombine = <<>>
    /\ running = [base |-> ZeroDigest, out |-> ZeroDigest]
    /\ fold = <<>>
    /\ BufIdle
    /\ AddrIdle

\* AvailBlobTransaction::new(&envelope)
New(env) ==
    /\ Len(txs) < Cardinality(Slots)
    /\ txs' = Append(txs, [env |-> env, res |-> AvailBlobTransactionNew(env)])
    /\ hashSeen' = Append(hashSeen, {})
    /\ UNCHANGED <<lastCombine, running, fold, bufVars, addrVars>>

\* tx.hash() on a constructed transaction
CallHash(i) ==
    /\ i \in Built
    /\ LET tx == txs[i].res.tx
           out == Hash(tx)
       IN  /\ hashSeen' = [hashSeen EXCEPT ![i] = @ \cup {out}]
           /\ txs' = [txs EXCEPT ![i].res.tx = SelfAfterCall(tx, out)]
    /\ UNCHANGED <<lastCombine, running, fold, bufVars, addrVars>>

\* tx.combine_hash(prior) with a prior that does not continue the fold:
\* the caller starts a new chain from prior.
CallCombineHash(i, prior) ==
    /\ i \in Built
    /\ LET tx == txs[i].res.tx
           out == CombineHash(tx, prior)
       IN  /\ lastCombine' = <<[slot |-> i, prior |-> prior, own |-> Hash(tx), out |-> out]>>
           /\ running' = [base |-> prior, out |-> out]
           /\ fold' = <<i>>
           /\ txs' = [txs EXCEPT ![i].res.tx = SelfAfterCall(tx, out)]
    /\ UNCHANGED <<hashSeen, bufVars, addrVars>>

\* running = tx.combine_hash(running): the caller folds the next transaction
\* into its running digest.
FoldNext(i) ==
    /\ i \in Built
    /\ fold # <<>>
    /\ Len(fold) < MaxFold
    /\ LET tx == txs[i].res.tx
           out == CombineHash(tx, running.out)
       IN  /\ lastCombine' = <<[slot |-> i, prior |-> running.out, own |-> Hash(tx), out |-> out]>>
           /\ running' = [running EXCEPT !.out = out]
           /\ fold' = Append(fold, i)
           /\ txs' = [txs EXCEPT ![i].res.tx = SelfAfterCall(tx, out)]
    /\ UNCHANGED <<hashSeen, bufVars, addrVars>>

TxNext ==
    \/ \E env \in Envelopes : New(env)
    \/ \E i \in Slots : CallHash(i)
    \/ \E i \in Slots : \E prior \in Priors : CallCombineHash(i, prior)
    \/ \E i \in Slots : FoldNext(i)

TxSpec == TxInit /\ [][TxNext]_vars

\* ------------------------------------------- claims on the transaction
\* C6: new() succeeds exactly when the signature is present with the Id
\* address shape and the call is DataAvailability submit_data; no signature
\* or another address shape gives the unsigned-envelope error, a valid
\* signer with another call gives the unexpected-call error, and a failure
\* carries no transaction value.
C6_NewSucceedsIff ==
    \A i \in 1..Len(txs) :
        LET sig == txs[i].env.signature
            fn == txs[i].env.function
            res == txs[i].res
            signed == sig.present /\ sig.shape = "Id"
            submit == fn.pallet = "DataAvailability" /\ fn.call = "submit_data"
        IN  /\ res.ok <=> (signed /\ submit)
            /\ ~signed => (~res.ok /\ res.err = UnsignedError)
            /\ (signed /\ ~submit) => (~res.ok /\ res.err = InvalidCallError)
            /\ ~res.ok => DOMAIN res = {"ok", "err"}
            /\ res.ok => (res.tx.address = sig.who /\ res.tx.blob.inner = fn.data)

C6_Witness ==
    /\ Len(txs) = 2
    /\ txs[1].env.signature.shape = "Address32"
    /\ txs[1].env.function.call = "submit_data"
    /\ ~txs[1].res.ok
    /\ txs[2].env.signature.shape = "Id"
    /\ txs[2].env.function.pallet = "Balances"
    /\ ~txs[2].res.ok

\* C7: combine_hash(p) is the hash of the single 2 * HashLen byte message
\* p followed by the transaction's own digest; folding d1 then d2 from the
\* zero digest gives hash(hash(zero || d1) || d2).
C7_CombineHashPriorFirst ==
    /\ lastCombine # <<>> =>
        LET c == lastCombine[1]
        IN  /\ c.own = txs[c.slot].res.tx.hash
            /\ Len(c.prior \o c.own) = 2 * HashLen
            /\ c.out = Blake2_256(c.prior \o c.own)
            /\ Len(c.out) = HashLen
            /\ running.out = c.out
    /\ (Len(fold) = 2 /\ running.base = ZeroDigest) =>
        LET d1 == txs[fold[1]].res.tx.hash
            d2 == txs[fold[2]].res.tx.hash
        IN  running.out = Blake2_256(Blake2_256(ZeroDigest \o d1) \o d2)

\* The fold is order-sensitive: here d1 then d2 differs from d2 then d1.
C7_Witness ==
    /\ Len(fold) = 2
    /\ running.base = ZeroDigest
    /\ LET d1 == txs[fold[1]].res.tx.hash
           d2 == txs[fold[2]].res.tx.hash
       IN  /\ d1 # d2
           /\ running.out # Blake2_256(Blake2_256(ZeroDigest \o d2) \o d1)

C8_DigestOfEnvelope ==
    /\ \A i \in Built :
        /\ txs[i].res.tx.hash = Blake2_256(Encode(txs[i].env))
        /\ \A h \in hashSeen[i] : h = Blake2_256(Encode(txs[i].env))
    /\ \A i, j \in Built :
        Encode(txs[i].env) = Encode(txs[j].env) =>
            txs[i].res.tx.hash = txs[j].res.tx.hash

C8_TxUnchanged == \A i \in 1..Len(txs) : txs'[i] = txs[i]

\* C8: the digest is the hash of the encoded envelope, fixed at
\* construction: equal encodings give equal digests, every hash() call
\* returns that digest, and no hash() or combine_hash() call changes a
\* transaction's digest, sender or payload buffer.
C8_DigestFixed == []C8_DigestOfEnvelope /\ [][C8_TxUnchanged]_vars

C8_Witness ==
    /\ Built = {1, 2}
    /\ txs[1].env = txs[2].env
    /\ hashSeen[1] # {}
    /\ hashSeen[2] # {}
    /\ Len(fold) = 2
    /\ fold[1] # fold[2]

\* ---------------------------------------------- AvailAddress (da.rs)
\* Text is a sequence of characters, each a one-character string.
LowerHex == <<"0", "1", "2", "3", "4", "5", "6", "7",
              "8", "9", "a", "b", "c", "d", "e", "f">>
UpperHex == <<"0", "1", "2", "3", "4", "5", "6", "7",
              "8", "9", "A", "B", "C", "D", "E", "F">>
\* The character U+2026 (horizontal ellipsis).
Ellipsis == "U+2026"

IsHexChar(c) == \E v \in 1..16 : LowerHex[v] = c \/ UpperHex[v] = c
HexVal(c) == (CHOOSE v \in 1..16 : LowerHex[v] = c \/ UpperHex[v] = c) - 1

\* write!(f, "{:02x}", byte)
ByteToHex(b) == <<LowerHex[(b \div 16) + 1], LowerHex[(b % 16) + 1]>>

\* Display of sp_core::H256 (fixed-hash's impl_fixed_hash): "0x", the first
\* two bytes in hex, an ellipsis, the last two bytes in hex.
H256Display(bytes) ==
    <<"0", "x">> \o ByteToHex(bytes[1]) \o ByteToHex(bytes[2])
    \o <<Ellipsis>>
    \o ByteToHex(bytes[AddrLen - 1]) \o ByteToHex(bytes[AddrLen])

\* impl Display for AvailAddress: write!(f, "{hash}") with hash = H256(self.0)
Display(a) == H256Display(a)

\* FromStr of sp_core::H256 (fixed-hash): an optional "0x" prefix is
\* stripped, then exactly 2 * AddrLen hex digits (either case) are read,
\* two per byte; a non-hex character or another length is an error.
H256FromStr(s) ==
    LET body == IF Len(s) >= 2 /\ s[1] = "0" /\ s[2] = "x"
                THEN SubSeq(s, 3, Len(s)) ELSE s
        scanned == IF Len(body) < 2 * AddrLen THEN Len(body) ELSE 2 * AddrLen
    IN  IF \E i \in 1..scanned : ~IsHexChar(body[i])
        THEN [ok |-> FALSE, err |-> "InvalidHexCharacter"]
        ELSE IF Len(body) # 2 * AddrLen
        THEN [ok |-> FALSE, err |-> "InvalidHexLength"]
        ELSE [ok |-> TRUE,
              bytes |-> [i \in 1..AddrLen |->
                            16 * HexVal(body[2 * i - 1]) + HexVal(body[2 * i])]]

\* impl FromStr for AvailAddress
FromStr(s) ==
    LET h256 == H256FromStr(s)
    IN  IF ~h256.ok THEN h256 ELSE [ok |-> TRUE, addr |-> h256.bytes]

\* impl From<[u8; 32]> for AvailAddress
Addrs == {AddressFrom(AccountBytes(k)) : k \in 0..MaxAddrs}

\* Strings handed to from_str: the full hex spelling of an address, in
\* lower or upper case, with or without the prefix, and cut short.
HexString(a, digits) ==
    [i \in 1..(2 * AddrLen) |->
        IF i % 2 = 1 THEN digits[(a[(i + 1) \div 2] \div 16) + 1]
        ELSE digits[(a[i \div 2] % 16) + 1]]

Inputs ==
    {HexString(addr, LowerHex), HexString(addr, UpperHex),
     <<"0", "x">> \o HexString(addr, LowerHex),
     SubSeq(HexString(addr, LowerHex), 1, 2 * AddrLen - 1)}
    \cup {text[i] : i \in 1..Len(text)}

AddrInit ==
    /\ addr \in Addrs
    /\ text = <<>>
    /\ parsed = <<>>
    /\ BufIdle
    /\ TxIdle

\* addr.to_string()
CallDisplay ==
    /\ text' = <<Display(addr)>>
    /\ UNCHANGED <<addr, parsed, bufVars, txVars>>

\* AvailAddress::from_str(s)
CallFromStr(s) ==
    /\ parsed' = <<[input |-> s, res |-> FromStr(s)]>>
    /\ UNCHANGED <<addr, text, bufVars, txVars>>

AddrNext ==
    \/ CallDisplay
    \/ \E s \in Inputs : CallFromStr(s)

AddrSpec == AddrInit /\ [][AddrNext]_vars

\* ----------------------------------------------- claims on the address
\* C9: decoding with FromStr the text that Display produced for an address
\* returns that address.
C9_TextRoundTrip ==
    (text # <<>> /\ parsed # <<>> /\ parsed[1].input = text[1]) =>
        (parsed[1].res.ok /\ parsed[1].res.addr = addr)

\* FromStr does return the address when given its full hex spelling.
C9_FullHexParses ==
    (parsed # <<>> /\ parsed[1].input = <<"0", "x">> \o HexString(addr, LowerHex)) =>
        (parsed[1].res.ok /\ parsed[1].res.addr = addr)

====
